---------------------------- MODULE Spec2Model ----------------------------
(***************************************************************************)
(* Model of src/src/uvc.rs: the UVCH metadata decoder                      *)
(* (UvcMetadata::from_bytes over the #[repr(C)] RawMetadata) and the       *)
(* extension-unit control operations (UvcExt, ExtensionUnit) that each     *)
(* hand one XuControlQuery to raw::ctrl_query.                             *)
(*                                                                         *)
(* Target assumptions, stated where they are used: a little-endian Linux   *)
(* target (x86_64 / aarch64), on which u64 has alignment 8.                *)
(*                                                                         *)
(* Integers wider than 31 bits (u64, u32) are represented by their         *)
(* base-256 numeral, most significant digit first, so that                 *)
(* 0x00000000AAAAAAAA is <<0,0,0,0,170,170,170,170>>.                      *)
(***************************************************************************)
EXTENDS Integers, Sequences, FiniteSets, TLC

VARIABLES
    pc,        \* position of the decoder's caller: "idle", "start", "done"
    bytes,     \* the argument of UvcMetadata::from_bytes
    meta,      \* what from_bytes returned: [some, raw]
    panicked,  \* whether from_bytes' assert! fired
    copied,    \* number of bytes ptr::copy has written
    calls,     \* history of control operations called
    ioctls,    \* history of requests raw::ctrl_query received, with its return
    results    \* history of io::Result values the operations returned

vars == <<pc, bytes, meta, panicked, copied, calls, ioctls, results>>

metaVars == <<pc, bytes, meta, panicked, copied>>
ctlVars == <<calls, ioctls, results>>

---------------------------------------------------------------------------
(* Bounds of the model *)

\* Lengths MAX_SIZE+1 .. MAX_SIZE+MaxExtra are the oversize inputs tried.
MaxExtra == 3

\* Longest history of control-operation calls explored.
MaxCalls == 2

\* Largest value of a u8 (unit_id: u8, selector: u8).
U8_MAX == 255

\* Number of values of a u16 (size: SIZE as u16).
U16_MODULUS == 65536

---------------------------------------------------------------------------
(* RawMetadata: #[repr(C)] layout *)

\* The fields of RawMetadata in declaration order, with size_of and align_of
\* of each field's type (u64 has alignment 8 on the target).
Fields_swapped ==
    << [name |-> "ts",                size |-> 8, align |-> 8],
       [name |-> "sof",               size |-> 2, align |-> 2],
       [name |-> "header_info",       size |-> 1, align |-> 1],
       [name |-> "header_length",     size |-> 1, align |-> 1],
       [name |-> "presentation_time", size |-> 4, align |-> 4],
       [name |-> "source_clock",      size |-> 6, align |-> 1] >>
Fields ==
    << [name |-> "ts",                size |-> 8, align |-> 8],
       [name |-> "sof",               size |-> 2, align |-> 2],
       [name |-> "header_length",     size |-> 1, align |-> 1],
       [name |-> "header_info",       size |-> 1, align |-> 1],
       [name |-> "presentation_time", size |-> 4, align |-> 4],
       [name |-> "source_clock",      size |-> 6, align |-> 1] >>

AlignUp(n, a) == ((n + a - 1) \div a) * a

\* repr(C): each field is placed at the next offset that is a multiple of its
\* alignment. EndOf(i) is the offset just past field i.
RECURSIVE EndOf(_)
EndOf(i) ==
    IF i = 0 THEN 0
    ELSE AlignUp(EndOf(i - 1), Fields[i].align) + Fields[i].size

OffsetOf(i) == AlignUp(EndOf(i - 1), Fields[i].align)

RECURSIVE MaxAlignUpTo(_)
MaxAlignUpTo(i) ==
    IF i = 0 THEN 1
    ELSE LET m == MaxAlignUpTo(i - 1)
         IN  IF Fields[i].align > m THEN Fields[i].align ELSE m

\* mem::size_of::<RawMetadata>(): the end of the last field rounded up to the
\* struct's alignment.
SizeOfRawMetadata_packed == EndOf(Len(Fields))
SizeOfRawMetadata == AlignUp(EndOf(Len(Fields)), MaxAlignUpTo(Len(Fields)))

\* pub const MAX_SIZE: usize = mem::size_of::<RawMetadata>();
MAX_SIZE == SizeOfRawMetadata

FieldIndex(n) == CHOOSE i \in 1..Len(Fields) : Fields[i].name = n

\* Memory offsets (0-based) that belong to some field; the others are padding.
IsFieldByte(off) ==
    \E i \in 1..Len(Fields) : OffsetOf(i) <= off /\ off < OffsetOf(i) + Fields[i].size

IsPadding(off) == off >= 0 /\ off < SizeOfRawMetadata /\ ~IsFieldByte(off)

---------------------------------------------------------------------------
(* UvcMetadata::from_bytes *)

\* Byte values an indeterminate (padding) byte is sampled from.
Indeterminate == {0, 255}

\* assert!(bytes.len() <= Self::MAX_SIZE)
LenWithinMaxSize_off(b) == TRUE
LenWithinMaxSize(b) == Len(b) <= MAX_SIZE

\* let mut raw: RawMetadata = mem::zeroed();  -- the memory of raw
mem_zeroed_uninit == [i \in 1..SizeOfRawMetadata |-> 170]
mem_zeroed == [i \in 1..SizeOfRawMetadata |-> 0]

\* std::ptr::copy(src, dst, count): the memory of dst afterwards.
ptr_copy_shifted(src, dst, count) ==
    [i \in 1..Len(dst) |-> IF 1 < i /\ i <= count + 1 THEN src[i - 1] ELSE dst[i]]
ptr_copy(src, dst, count) ==
    [i \in 1..Len(dst) |-> IF i <= count THEN src[i] ELSE dst[i]]

\* Self { raw }: a typed move of RawMetadata. Field bytes are carried over;
\* padding bytes are not part of the value, and each is either what the memory
\* held or indeterminate.
TypedMove(mem) ==
    LET pad == { i \in 1..Len(mem) : IsPadding(i - 1) }
        fill == { f \in [pad -> {mem[i] : i \in pad} \cup Indeterminate] :
                    \A i \in pad : f[i] \in {mem[i]} \cup Indeterminate }
    IN  { [i \in 1..Len(mem) |-> IF i \in pad THEN f[i] ELSE mem[i]] : f \in fill }

NoMeta == [some |-> FALSE, raw |-> <<>>]

\* The bytes of field n in the memory image raw.
FieldBytes(raw, n) ==
    LET i == FieldIndex(n)
    IN  SubSeq(raw, OffsetOf(i) + 1, OffsetOf(i) + Fields[i].size)

\* A native-endian integer read on the little-endian target: the base-256
\* numeral, most significant digit first, of the bytes in memory order.
NativeDigits(bs) == [i \in 1..Len(bs) |-> bs[Len(bs) + 1 - i]]

\* The decoded fields of a UvcMetadata m.
ts(m) == NativeDigits(FieldBytes(m.raw, "ts"))
sof(m) == LET bs == FieldBytes(m.raw, "sof") IN bs[1] + 256 * bs[2]
header_length(m) == FieldBytes(m.raw, "header_length")[1]
header_info(m) == FieldBytes(m.raw, "header_info")[1]
presentation_time(m) == NativeDigits(FieldBytes(m.raw, "presentation_time"))
source_clock(m) == FieldBytes(m.raw, "source_clock")

\* HeaderInfo: bit k of the flag byte h.
HasBit(h, k) == (h \div (2 ^ k)) % 2 = 1
PRESENTATION_TIME == 2
SOURCE_CLOCK_REFERENCE == 3

\* The call UvcMetadata::from_bytes(bytes).
FromBytes ==
    /\ pc = "start"
    /\ pc' = "done"
    /\ IF ~LenWithinMaxSize(bytes)
       THEN /\ panicked' = TRUE
            /\ meta' = NoMeta
            /\ copied' = 0
       ELSE LET raw == ptr_copy(bytes, mem_zeroed, Len(bytes))
            IN  /\ panicked' = FALSE
                /\ copied' = Len(bytes)
                /\ \E r \in TypedMove(raw) : meta' = [some |-> TRUE, raw |-> r]
    /\ UNCHANGED <<bytes, ctlVars>>

\* Input buffers: every length 0 .. MAX_SIZE+MaxExtra, filled with a constant
\* byte or with the ramp 1, 2, 3, ..., and optionally with the header_info
\* byte (offset 11) set to a chosen flag byte.
Fills == {0, 170, 255}
FlagBytes == {0, 4, 8, 12}

Buffer(n, fill, ramp, flag) ==
    [i \in 1..n |->
        IF flag >= 0 /\ i = 12 THEN flag
        ELSE IF ramp THEN i ELSE fill]

Inputs ==
    { Buffer(n, f, r, h) :
        n \in 0..(MAX_SIZE + MaxExtra), f \in Fills, r \in BOOLEAN,
        h \in FlagBytes \cup {-1} }

---------------------------------------------------------------------------
(* Extension-unit control queries *)

HFLIP_UNIT_SELECTOR == 12
VFLIP_UNIT_SELECTOR == 13
UVC_EXTENSION_UNIT == 3
EXPOSURE_WEIGHTS_UNIT_SELECTOR == 9

\* XuQuery: the UVC request codes.
SET_CUR == 1
GET_CUR == 129
GET_INFO == 134

\* struct XuControlQuery { unit, selector, query, size, data }: data is the
\* pointer; the model keeps the buffer it points to (contents at the time of
\* the call), whose length is the number of bytes the pointer references.
XuControlQuery(unit, selector, query, size, data) ==
    [unit |-> unit, selector |-> selector, query |-> query, size |-> size,
     data |-> data]

\* OS error codes the ioctl is made to fail with (EACCES, ENODEV, EINVAL).
Errnos == {13, 19, 22}

\* Byte values the device answers a GET_* query with.
DeviceBytes == {3, 255}

\* raw::ctrl_query(fd, &mut query): one UVCIOC_CTRL_QUERY ioctl. Its possible
\* returns: failure with an OS error code, the buffer untouched; or success,
\* with the buffer read (SET_CUR) or overwritten by the driver (GET_*).
ctrl_query(q) ==
    { [ok |-> FALSE, errno |-> e, out |-> q.data] : e \in Errnos }
    \cup
    { [ok |-> TRUE, errno |-> 0, out |-> d] :
        d \in IF q.query = SET_CUR THEN {q.data}
              ELSE { [i \in 1..Len(q.data) |-> v] : v \in DeviceBytes } }

\* io::Result values.
Ok(v) == [ok |-> TRUE, errno |-> 0, value |-> v]
Err(e) == [ok |-> FALSE, errno |-> e, value |-> <<>>]

\* size: SIZE as u16, SIZE the length of data: &mut [u8; SIZE].
control_query_size_ptr(data) == 8
control_query_size(data) == Len(data) % U16_MODULUS

\* raw::ctrl_query(..)?; Ok(())  in UvcExt::control_query.
control_query_result(o) == IF o.ok THEN Ok(<<>>) ELSE Err(o.errno)

\* UvcExt::control_query::<SIZE>(unit, selector, query, data), called by the
\* operation `caller`.
control_query_retry(caller, unit, selector, query, data) ==
    /\ LET q == XuControlQuery(unit, selector, query, control_query_size(data), data)
       IN  \E o \in ctrl_query(q) :
             /\ calls' = Append(calls, caller)
             /\ ioctls' = IF o.ok THEN Append(ioctls, [req |-> q, ret |-> o])
                          ELSE ioctls \o << [req |-> q, ret |-> o], [req |-> q, ret |-> o] >>
             /\ results' = Append(results, control_query_result(o))
    /\ UNCHANGED metaVars
control_query(caller, unit, selector, query, data) ==
    /\ LET q == XuControlQuery(unit, selector, query, control_query_size(data), data)
       IN  \E o \in ctrl_query(q) :
             /\ calls' = Append(calls, caller)
             /\ ioctls' = Append(ioctls, [req |-> q, ret |-> o])
             /\ results' = Append(results, control_query_result(o))
    /\ UNCHANGED metaVars

Call(op, args) == [op |-> op, args |-> args]

\* UvcExt::horizontal_flip
horizontal_flip_off ==
    control_query(Call("horizontal_flip", <<>>),
                  UVC_EXTENSION_UNIT, HFLIP_UNIT_SELECTOR, SET_CUR, <<0, 0>>)
horizontal_flip ==
    control_query(Call("horizontal_flip", <<>>),
                  UVC_EXTENSION_UNIT, HFLIP_UNIT_SELECTOR, SET_CUR, <<1, 0>>)

\* UvcExt::vertical_flip
vertical_flip ==
    control_query(Call("vertical_flip", <<>>),
                  UVC_EXTENSION_UNIT, VFLIP_UNIT_SELECTOR, SET_CUR, <<1, 0>>)

\* UvcExt::set_auto_exposure_weights(weights)
set_auto_exposure_weights(weights) ==
    control_query(Call("set_auto_exposure_weights", weights),
                  UVC_EXTENSION_UNIT, EXPOSURE_WEIGHTS_UNIT_SELECTOR, SET_CUR, weights)

\* UvcExt::get_auto_exposure_weights(out)
get_auto_exposure_weights(out) ==
    control_query(Call("get_auto_exposure_weights", out),
                  UVC_EXTENSION_UNIT, EXPOSURE_WEIGHTS_UNIT_SELECTOR, GET_CUR, out)

\* The XuControlQuery built by ExtensionUnit::control_info: info = 0 is the
\* one-byte buffer data points to.
control_info_request_set(unit_id, selector) ==
    XuControlQuery(unit_id, selector, SET_CUR, 1, <<0>>)
control_info_request(unit_id, selector) ==
    XuControlQuery(unit_id, selector, GET_INFO, 1, <<0>>)

\* raw::ctrl_query(..)?; Ok(ControlInfo::from_bits_unchecked(info))
control_info_result_default(o) == IF o.ok THEN Ok(<<o.out[1]>>) ELSE Ok(<<0>>)
control_info_result(o) == IF o.ok THEN Ok(<<o.out[1]>>) ELSE Err(o.errno)

\* ExtensionUnit::control_info(selector) on the handle
\* UvcExt::extension_unit(unit_id).
control_info(unit_id, selector) ==
    /\ LET q == control_info_request(unit_id, selector)
       IN  \E o \in ctrl_query(q) :
             /\ calls' = Append(calls, Call("control_info", <<unit_id, selector>>))
             /\ ioctls' = Append(ioctls, [req |-> q, ret |-> o])
             /\ results' = Append(results, control_info_result(o))
    /\ UNCHANGED metaVars

\* [u8; 17] buffers the callers pass.
WeightBuffers == { [i \in 1..17 |-> 0], [i \in 1..17 |-> i] }

\* Unit ids and selectors queried in the histories of Spec.
UnitIds == {UVC_EXTENSION_UNIT, 99}
Selectors == {EXPOSURE_WEIGHTS_UNIT_SELECTOR, HFLIP_UNIT_SELECTOR}

---------------------------------------------------------------------------
(* Specifications *)

InitCtl ==
    /\ calls = <<>>
    /\ ioctls = <<>>
    /\ results = <<>>

InitMeta ==
    /\ pc = "start"
    /\ bytes \in Inputs
    /\ meta = NoMeta
    /\ panicked = FALSE
    /\ copied = 0
    /\ InitCtl

NextMeta == FromBytes

\* The decoder applied to each input buffer.
SpecMeta == InitMeta /\ [][NextMeta]_vars

Init ==
    /\ pc = "idle"
    /\ bytes = <<>>
    /\ meta = NoMeta
    /\ panicked = FALSE
    /\ copied = 0
    /\ InitCtl

\* The operations a caller may invoke while the history is below MaxCalls.
HorizontalFlipCall ==
    /\ Len(calls) < MaxCalls
    /\ horizontal_flip

VerticalFlipCall ==
    /\ Len(calls) < MaxCalls
    /\ vertical_flip

SetWeightsCall ==
    /\ Len(calls) < MaxCalls
    /\ \E w \in WeightBuffers : set_auto_exposure_weights(w)

GetWeightsCall ==
    /\ Len(calls) < MaxCalls
    /\ \E w \in WeightBuffers : get_auto_exposure_weights(w)

ControlInfoCall ==
    /\ Len(calls) < MaxCalls
    /\ \E u \in UnitIds, s \in Selectors : control_info(u, s)

Next ==
    \/ HorizontalFlipCall
    \/ VerticalFlipCall
    \/ SetWeightsCall
    \/ GetWeightsCall
    \/ ControlInfoCall

\* Histories of up to MaxCalls control operations on one device.
Spec == Init /\ [][Next]_vars

ControlInfoAny ==
    /\ calls = <<>>
    /\ \E u \in 0..U8_MAX, s \in 0..U8_MAX : control_info(u, s)

NextInfo == ControlInfoAny

\* One control_info call, for every unit id and every selector a u8 holds.
SpecInfo == Init /\ [][NextInfo]_vars

---------------------------------------------------------------------------
(* Properties of UvcMetadata::from_bytes, checked under SpecMeta *)

\* Byte k (0-based) of the input, an absent byte read as zero.
InputByte(k) == IF k < Len(bytes) THEN bytes[k + 1] ELSE 0

Decoded == pc = "done" /\ meta.some

\* C1, as stated: for every buffer of at most MAX_SIZE bytes, the first
\* len(b) bytes of the returned structure equal b and every remaining byte up
\* to MAX_SIZE is zero.
C1_AllBytesOfStructure ==
    (pc = "done" /\ Len(bytes) <= MAX_SIZE) =>
        /\ meta.some
        /\ \A i \in 1..MAX_SIZE : meta.raw[i] = InputByte(i - 1)

\* C1, amended: for every buffer of at most MAX_SIZE bytes, every byte of the
\* returned structure that belongs to a field (offsets 0..21) equals the
\* input byte at that offset when the input has one and is zero otherwise;
\* nothing is said of the tail padding.
C1_FieldBytesOfStructure ==
    (pc = "done" /\ Len(bytes) <= MAX_SIZE) =>
        /\ meta.some
        /\ Len(meta.raw) = MAX_SIZE
        /\ \A i \in 1..MAX_SIZE :
             IsFieldByte(i - 1) => meta.raw[i] = InputByte(i - 1)

\* A 5-byte ramp was decoded: byte 4 copied, byte 5 left zero.
C1_Witness ==
    /\ Decoded
    /\ bytes = <<1, 2, 3, 4, 5>>
    /\ meta.raw[5] = 5
    /\ meta.raw[6] = 0

\* C2: a buffer longer than MAX_SIZE is rejected by the assertion before any
\* byte is copied; no structure is produced, nothing is clamped.
C2_OversizeRejected ==
    (pc = "done" /\ Len(bytes) > MAX_SIZE) =>
        /\ panicked
        /\ meta = NoMeta
        /\ copied = 0

\* An oversize buffer was passed and the call panicked.
C2_Witness ==
    /\ pc = "done"
    /\ Len(bytes) = MAX_SIZE + 1
    /\ panicked

\* C3: the decoded fields are read from fixed offsets of the input:
\* timestamp the little-endian u64 of bytes 0..8, start-of-frame the
\* little-endian u16 of bytes 8..10, header_length byte 10, header_info byte
\* 11, presentation_time the little-endian u32 of bytes 12..16, source_clock
\* bytes 16..22, absent bytes read as zero; [0xAA,0xAA,0xAA,0xAA] decodes to
\* timestamp 0x00000000AAAAAAAA and every other field zero.
C3_FieldOffsets ==
    Decoded =>
        /\ ts(meta) = << InputByte(7), InputByte(6), InputByte(5), InputByte(4),
                         InputByte(3), InputByte(2), InputByte(1), InputByte(0) >>
        /\ sof(meta) = InputByte(8) + 256 * InputByte(9)
        /\ header_length(meta) = InputByte(10)
        /\ header_info(meta) = InputByte(11)
        /\ presentation_time(meta) =
               << InputByte(15), InputByte(14), InputByte(13), InputByte(12) >>
        /\ source_clock(meta) =
               << InputByte(16), InputByte(17), InputByte(18), InputByte(19),
                  InputByte(20), InputByte(21) >>
        /\ bytes = <<170, 170, 170, 170>> =>
               /\ ts(meta) = <<0, 0, 0, 0, 170, 170, 170, 170>>
               /\ sof(meta) = 0
               /\ header_length(meta) = 0
               /\ header_info(meta) = 0
               /\ presentation_time(meta) = <<0, 0, 0, 0>>
               /\ source_clock(meta) = <<0, 0, 0, 0, 0, 0>>

\* The four bytes 0xAA were decoded, and so was a full ramp with distinct
\* header_length and header_info bytes.
C3_Witness ==
    /\ Decoded
    /\ bytes = <<170, 170, 170, 170>>
    /\ ts(meta) = <<0, 0, 0, 0, 170, 170, 170, 170>>

\* C4, as stated: MAX_SIZE is 22; lengths 0..22 are accepted, 23 and more
\* are rejected.
C4_MaxSizeIs22 ==
    pc = "done" =>
        /\ Len(bytes) <= 22 => meta.some
        /\ Len(bytes) >= 23 => (MAX_SIZE = 22 /\ panicked)

\* C4, amended: the fields take 22 bytes (8 + 2 + 1 + 1 + 4 + 6), and MAX_SIZE
\* is size_of::<RawMetadata>() = 24, the 22 bytes rounded up to the struct's
\* alignment; lengths 0..24 are accepted, 25 and more are rejected.
C4_MaxSizeIs24 ==
    pc = "done" =>
        /\ EndOf(Len(Fields)) = 22
        /\ MAX_SIZE = 24
        /\ panicked <=> Len(bytes) >= 25
        /\ meta.some <=> Len(bytes) <= 24

\* A 23-byte buffer was passed and decoded.
C4_Witness ==
    /\ Decoded
    /\ Len(bytes) = 23
    /\ ~panicked

\* C9, as stated: with the PRESENTATION_TIME bit of header_info unset the
\* decoded presentation_time is zero, and with the SOURCE_CLOCK_REFERENCE bit
\* unset the decoded source_clock is all zero.
C9_UnsetFlagMeansZero ==
    Decoded =>
        /\ ~HasBit(header_info(meta), 2) =>
               presentation_time(meta) = <<0, 0, 0, 0>>
        /\ ~HasBit(header_info(meta), 3) =>
               source_clock(meta) = <<0, 0, 0, 0, 0, 0>>

\* C9, amended: with the PRESENTATION_TIME bit unset and no input byte at
\* offsets 12..16 (len(b) <= 12) the decoded presentation_time is zero, and
\* with the SOURCE_CLOCK_REFERENCE bit unset and no input byte at offsets
\* 16..22 (len(b) <= 16) the decoded source_clock is all zero.
C9_UnsetFlagAndAbsentBytesMeanZero ==
    Decoded =>
        /\ (~HasBit(header_info(meta), 2) /\ Len(bytes) <= 12) =>
               presentation_time(meta) = <<0, 0, 0, 0>>
        /\ (~HasBit(header_info(meta), 3) /\ Len(bytes) <= 16) =>
               source_clock(meta) = <<0, 0, 0, 0, 0, 0>>

\* A 12-byte header with no flag set was decoded, its other bytes non-zero.
C9_Witness ==
    /\ Decoded
    /\ Len(bytes) = 12
    /\ bytes[1] = 255
    /\ header_info(meta) = 0
    /\ presentation_time(meta) = <<0, 0, 0, 0>>
    /\ source_clock(meta) = <<0, 0, 0, 0, 0, 0>>

---------------------------------------------------------------------------
(* Properties of the control operations *)

ControlOps ==
    {"control_info", "horizontal_flip", "vertical_flip",
     "set_auto_exposure_weights", "get_auto_exposure_weights"}

\* C5 (checked under SpecInfo): for every unit id u and selector s in 0..255,
\* control_info(s) on the handle for unit u sends unit = u, selector = s,
\* query = GET_INFO (0x86), size = 1 with a 1-byte buffer, and sends no other
\* request (never SET_CUR, 0x01).
C5_ControlInfoRequest ==
    /\ \A i \in 1..Len(calls) :
         calls[i].op = "control_info" =>
            /\ i <= Len(ioctls)
            /\ ioctls[i].req.unit = calls[i].args[1]
            /\ ioctls[i].req.selector = calls[i].args[2]
            /\ ioctls[i].req.query = 134
            /\ ioctls[i].req.query # 1
            /\ ioctls[i].req.size = 1
            /\ Len(ioctls[i].req.data) = 1
    /\ Len(ioctls) = Len(calls)

\* control_info(255) was called on unit 99 and its request reached the
\* transport.
C5_Witness ==
    /\ Len(calls) = 1
    /\ calls[1] = Call("control_info", <<99, 255>>)
    /\ Len(ioctls) = 1
    /\ ioctls[1].req.unit = 99
    /\ ioctls[1].req.selector = 255

\* C6: when the ioctl of a control operation fails with OS error code e, the
\* operation returns a failure carrying exactly e; no default value is
\* returned in its place.
C6_ErrorPropagated ==
    \A i \in 1..Len(calls) :
        (calls[i].op \in ControlOps /\ i <= Len(ioctls) /\ ~ioctls[i].ret.ok) =>
            /\ i <= Len(results)
            /\ ~results[i].ok
            /\ results[i].errno = ioctls[i].ret.errno
            /\ results[i].value = <<>>

\* control_info on unit 99 failed with ENODEV (19), and a flip failed too.
C6_Witness ==
    /\ Len(calls) = 2
    /\ calls[1] = Call("control_info", <<99, 12>>)
    /\ ~ioctls[1].ret.ok
    /\ ioctls[1].ret.errno = 19
    /\ results[1] = Err(19)
    /\ calls[2].op = "horizontal_flip"
    /\ ~ioctls[2].ret.ok
    /\ results[2] = Err(13)

\* C7: horizontal_flip() sends exactly {unit 3, selector 0x0c, SET_CUR (0x01),
\* size 2, data [1, 0]}, vertical_flip() the same with selector 0x0d, and no
\* SET_CUR with data [0, 0] is ever sent to either flip selector.
C7_FlipRequests ==
    /\ \A i \in 1..Len(calls) :
         /\ calls[i].op = "horizontal_flip" =>
              /\ i <= Len(ioctls)
              /\ ioctls[i].req =
                   [unit |-> 3, selector |-> 12, query |-> 1, size |-> 2,
                    data |-> <<1, 0>>]
         /\ calls[i].op = "vertical_flip" =>
              /\ i <= Len(ioctls)
              /\ ioctls[i].req =
                   [unit |-> 3, selector |-> 13, query |-> 1, size |-> 2,
                    data |-> <<1, 0>>]
    /\ \A j \in 1..Len(ioctls) :
         ~ /\ ioctls[j].req.query = 1
           /\ ioctls[j].req.selector \in {12, 13}
           /\ ioctls[j].req.data = <<0, 0>>

\* Both flips were called, in either order.
C7_Witness ==
    /\ Len(calls) = 2
    /\ calls[1].op = "vertical_flip"
    /\ calls[2].op = "horizontal_flip"
    /\ ioctls[2].req.selector = 12
    /\ ioctls[2].req.data = <<1, 0>>

\* C8: in every request of a fixed-size control call the size field equals
\* the width of the buffer and the referenced buffer has exactly that many
\* bytes; the exposure-weights calls send size 17, the flips size 2.
C8_SizeIsBufferWidth ==
    \A i \in 1..Len(calls) :
        /\ i <= Len(ioctls)
        /\ ioctls[i].req.size = Len(ioctls[i].req.data)
        /\ calls[i].op \in {"set_auto_exposure_weights", "get_auto_exposure_weights"} =>
              /\ ioctls[i].req.size = 17
              /\ Len(calls[i].args) = 17
        /\ calls[i].op \in {"horizontal_flip", "vertical_flip"} =>
              ioctls[i].req.size = 2

\* The weights were set and then read back.
C8_Witness ==
    /\ Len(calls) = 2
    /\ calls[1].op = "set_auto_exposure_weights"
    /\ calls[2].op = "get_auto_exposure_weights"
    /\ ioctls[1].req.size = 17
    /\ ioctls[2].req.size = 17

\* The selector and request code the operation of call c is bound to.
SentBy(c, req) ==
    CASE c.op = "control_info" ->
            req.unit = c.args[1] /\ req.selector = c.args[2] /\ req.query = 134
      [] c.op = "horizontal_flip" -> req.selector = 12 /\ req.query = 1
      [] c.op = "vertical_flip" -> req.selector = 13 /\ req.query = 1
      [] c.op = "set_auto_exposure_weights" ->
            req.selector = 9 /\ req.query = 1 /\ req.data = c.args
      [] c.op = "get_auto_exposure_weights" ->
            req.selector = 9 /\ req.query = 129 /\ req.data = c.args

\* C10: every call of a control operation performs exactly one ioctl request
\* before it returns, whether the request succeeds or fails: a history of k
\* calls contains exactly k requests and k results, the i-th request being
\* the one of the i-th call.
C10_OneIoctlPerCall ==
    /\ Len(ioctls) = Len(calls)
    /\ Len(results) = Len(calls)
    /\ \A i \in 1..Len(calls) :
         /\ i <= Len(ioctls)
         /\ SentBy(calls[i], ioctls[i].req)
         /\ results[i].ok = ioctls[i].ret.ok

\* A failed set_auto_exposure_weights was followed by a second call; there
\* are two requests.
C10_Witness ==
    /\ Len(calls) = 2
    /\ calls[1].op = "set_auto_exposure_weights"
    /\ ~ioctls[1].ret.ok
    /\ ~results[1].ok
    /\ calls[2].op = "control_info"
    /\ Len(ioctls) = 2

===========================================================================
